---- MODULE Spec2Model ----
(***************************************************************************)
(* A model of pixed's tile compositing core (src/src/tiles.rs): the pixel  *)
(* classifier, the layer-repeat expansion, the per-quadrant adjacency      *)
(* lookup, the three asset loaders and the three get_pixel methods.        *)
(*                                                                         *)
(* A Rust Vec is a TLA+ sequence; Rust indexes from 0, so v[i] in the      *)
(* source is At(v, i) here.  A Rust panic (index out of bounds, division   *)
(* by zero, unreachable!()) is the value Panicked; a function that returns *)
(* normally returns Ok(v).                                                 *)
(***************************************************************************)
EXTENDS Integers, Sequences, FiniteSets, TLC

VARIABLES file, settings, asset, call

vars == <<file, settings, asset, call>>

\* ------------------------------------------------------------ constants

TILE_SIZE == 20

HALF_TILE_SIZE == TILE_SIZE \div 2

PIXEL_SIZE == 4

\* block_rows of MaterialLoader::load
block_rows == 5

\* ------------------------------------------------------------ bounds

\* longest raw byte buffer handed to TileLayer::from on its own
MaxBytes == 9

\* longest layer_repeats list, and the largest run length in it
MaxRuns == 3

MaxRun == 4

\* most TILE_SIZE x TILE_SIZE layers in an image file
MaxLayers == 3

\* most 5-variant quadrant strips in an image file
MaxQuadrants == 5

\* largest size.x and size.y of a metadata record
MaxSize == 2

\* largest |k| of the shifts by k periods of a texture position
MaxK == 2

\* ------------------------------------------------------------ Rust values

Panicked == [panicked |-> TRUE]

Ok(v) == [panicked |-> FALSE, value |-> v]

None == [some |-> FALSE]

Some(v) == [some |-> TRUE, value |-> v]

\* v[i], i counted from 0; the caller has checked i < v.len()
At(v, i) == v[i + 1]

\* Vec::get
VecGet(v, i) == IF i < Len(v) THEN Some(At(v, i)) ELSE None

Min(a, b) == IF a < b THEN a ELSE b

\* Iterator::collect into a Vec: the elements are computed once, in order
Collect(f) == f \o <<>>

\* slice::chunks(n), n > 0: consecutive pieces of n elements, the last one
\* shorter when n does not divide the length
Chunks(v, n) ==
    Collect([c \in 1..((Len(v) + n - 1) \div n) |->
        SubSeq(v, (c - 1) * n + 1, Min(c * n, Len(v)))])

RECURSIVE SumSeq(_)
\* Iterator::sum
SumSeq(s) == IF s = <<>> THEN 0 ELSE Head(s) + SumSeq(Tail(s))

RECURSIVE Flatten(_)
\* the concatenation of a sequence of sequences, in order
Flatten(ss) == IF ss = <<>> THEN <<>> ELSE Head(ss) \o Flatten(Tail(ss))

\* ------------------------------------------------------------ TilePixel

TilePixel == {"Up", "Neutral", "Down", "None"}

\* ------------------------------------------------------------ TileLayer::from

\* a classifier that takes TilePixel's default, Up, for what it cannot read
ClassifyBadAsUp(pixel) ==
    IF Len(pixel) < PIXEL_SIZE THEN "Up"
    ELSE CASE pixel = <<0, 0, 0, 0>> -> "None"
           [] pixel = <<0, 0, 255, 255>> -> "Up"
           [] pixel = <<0, 255, 0, 255>> -> "Neutral"
           [] pixel = <<255, 0, 0, 255>> -> "Down"
           [] OTHER -> "Up"

\* the closure mapped over the chunks: "panic" when a byte of the quadruple
\* is missing (index out of bounds) or the quadruple is not in the table
\* (unreachable!())
Classify(pixel) ==
    IF Len(pixel) < PIXEL_SIZE THEN "panic"
    ELSE CASE pixel = <<0, 0, 0, 0>> -> "None"
           [] pixel = <<0, 0, 255, 255>> -> "Up"
           [] pixel = <<0, 255, 0, 255>> -> "Neutral"
           [] pixel = <<255, 0, 0, 255>> -> "Down"
           [] OTHER -> "panic"

TileLayer_from(value) ==
    LET pixels == Chunks(value, PIXEL_SIZE)
        colors == Collect([c \in 1..Len(pixels) |-> Classify(pixels[c])])
    IN  IF \E c \in 1..Len(colors) : colors[c] = "panic"
        THEN Panicked
        ELSE Ok([colors |-> colors])

\* ------------------------------------------------------------ compute_tile_layers

RECURSIVE Unroll(_, _)
\* the loop of get_tile_layer: layer index idx pushed e times, for each
\* (idx, e) of layer_repeats.iter().enumerate(), from index idx on
Unroll(layer_repeats, idx) ==
    IF idx >= Len(layer_repeats) THEN <<>>
    ELSE [k \in 1..At(layer_repeats, idx) |-> idx] \o Unroll(layer_repeats, idx + 1)

get_tile_layer(sub_layer, layer_repeats) ==
    At(Unroll(layer_repeats, 0), sub_layer)

\* the expansion read one slot too far
compute_tile_layers_off_by_one(layer_repeats) ==
    Collect([i \in 1..SumSeq(layer_repeats) |->
        get_tile_layer(Min(i, SumSeq(layer_repeats) - 1), layer_repeats)])

compute_tile_layers(layer_repeats) ==
    Collect([i \in 1..SumSeq(layer_repeats) |-> get_tile_layer(i - 1, layer_repeats)])

\* ------------------------------------------------------------ SubTile::get

\* vertical read from the window position of horizontal
SubTile_idx_same_window(self, adj) ==
    LET horizontal == At(adj, 2 * (self.quadrant % 2))
        vertical == At(adj, 2 * (self.quadrant % 2))
        diagonal == At(adj, 1)
    IN  CASE horizontal /\ vertical /\ diagonal -> 4
          [] horizontal /\ vertical /\ ~diagonal -> 3
          [] horizontal /\ ~vertical -> 2
          [] ~horizontal /\ vertical -> 1
          [] ~horizontal /\ ~vertical /\ diagonal -> 0
          [] ~horizontal /\ ~vertical /\ ~diagonal -> 0

\* the local idx of SubTile::get; adj is the window of 3 booleans
SubTile_idx(self, adj) ==
    LET horizontal == At(adj, 2 * (self.quadrant % 2))
        vertical == At(adj, 2 * (1 - (self.quadrant % 2)))
        diagonal == At(adj, 1)
    IN  CASE horizontal /\ vertical /\ diagonal -> 4
          [] horizontal /\ vertical /\ ~diagonal -> 3
          [] horizontal /\ ~vertical -> 2
          [] ~horizontal /\ vertical -> 1
          [] ~horizontal /\ ~vertical /\ diagonal -> 0
          [] ~horizontal /\ ~vertical /\ ~diagonal -> 0

\* &self.data[idx]
SubTile_get(self, adj) ==
    IF Len(adj) < 3 THEN Panicked
    ELSE LET idx == SubTile_idx(self, adj)
         IN  IF idx < Len(self.data) THEN Ok(At(self.data, idx)) ELSE Panicked

\* ------------------------------------------------------------ BlockMaterial::get_pixel

\* the match on (x, y); -1 stands for the unreachable!() arm
Quadrant(x, y) ==
    CASE x \in 0..9 /\ y \in 0..9 -> 0
      [] x \in 10..19 /\ y \in 0..9 -> 1
      [] x \in 10..19 /\ y \in 10..19 -> 2
      [] x \in 0..9 /\ y \in 10..19 -> 3
      [] OTHER -> -1

\* &neighbors[from..=to]
SliceInclusive(v, from, to) ==
    IF to >= Len(v) THEN Panicked ELSE Ok(SubSeq(v, from + 1, to + 1))

\* lines 90-106: the decomposition of rpos and the lookup of the pixel
BlockLookup(self, rpos, neighbors) ==
    LET x0 == rpos % TILE_SIZE
        y0 == rpos \div TILE_SIZE
        quadrant == Quadrant(x0, y0)
        x == IF x0 > 9 THEN x0 - 10 ELSE x0
        y == IF y0 > 9 THEN y0 - 10 ELSE y0
        idx == x + y * HALF_TILE_SIZE
    IN  IF quadrant = -1 THEN Panicked
        ELSE IF quadrant >= Len(self.sub_tiles) THEN Panicked
        ELSE
        LET adj == SliceInclusive(neighbors, quadrant * 2, quadrant * 2 + 2)
        IN  IF adj.panicked THEN Panicked
            ELSE
            LET layer == SubTile_get(At(self.sub_tiles, quadrant), adj.value)
            IN  IF layer.panicked THEN Panicked
                ELSE IF idx >= Len(layer.value.colors) THEN Panicked
                ELSE Ok(At(layer.value.colors, idx))

\* the slot looked up only after the pixel
BlockMaterial_get_pixel_late_check(self, sub_layer, rpos, neighbors) ==
    LET pixel == BlockLookup(self, rpos, neighbors)
    IN  IF pixel.panicked THEN Panicked
        ELSE IF ~VecGet(self.computed_tile_layers, sub_layer).some THEN Ok("Neutral")
        ELSE pixel

BlockMaterial_get_pixel(self, sub_layer, rpos, neighbors) ==
    IF ~VecGet(self.computed_tile_layers, sub_layer).some THEN Ok("Neutral")
    ELSE BlockLookup(self, rpos, neighbors)

\* ------------------------------------------------------------ Tile::get_pixel

Tile_get_pixel(self, sub_layer, rpos) ==
    LET tile_layer == VecGet(self.computed_tile_layers, sub_layer)
    IN  IF ~tile_layer.some THEN Ok("Neutral")
        ELSE IF tile_layer.value >= Len(self.layers) THEN Panicked
        ELSE IF rpos >= Len(At(self.layers, tile_layer.value).colors) THEN Panicked
        ELSE Ok(At(At(self.layers, tile_layer.value).colors, rpos))

\* ------------------------------------------------------------ TileTexture::get_pixel

\* A u32 is kept as two 16-bit halves, [hi, lo] for hi * 65536 + lo: the
\* coordinates of a position run up to 2^32 - 1.
Half == 2 ^ 16

U32(n) == [hi |-> n \div Half, lo |-> n % Half]

\* a % m for a u32 a and 0 < m < 2^15 (m is size.x * TILE_SIZE, which for
\* the sizes up to MaxSize neither overflows a u32 nor reaches 2^15)
U32Rem(a, m) == (((a.hi % m) * (Half % m)) + a.lo) % m

\* a coordinate clamped to the grid instead of wrapped
RemClamp(a, m) ==
    IF m = 0 THEN Panicked
    ELSE Ok(IF a.hi > 0 \/ a.lo >= m THEN m - 1 ELSE a.lo)

\* u32 remainder as Rust computes it: x % 0 panics
Rem(a, m) == IF m = 0 THEN Panicked ELSE Ok(U32Rem(a, m))

TileTexture_get_pixel(self, pos) ==
    LET px == Rem(pos.x, self.size.x * TILE_SIZE)
        py == Rem(pos.y, self.size.y * TILE_SIZE)
    IN  IF px.panicked \/ py.panicked THEN Panicked
        ELSE LET idx == px.value + py.value * TILE_SIZE * self.size.x
             IN  IF idx >= Len(self.texture.colors) THEN Panicked
                 ELSE Ok(At(self.texture.colors, idx))

\* ------------------------------------------------------------ loaders

\* Each load reads the file and has Image::from_buffer turn it into the
\* image's byte buffer; data is tile_image.data.

TileLoader_load(data, meta) ==
    LET decoded == TileLayer_from(data)
        n == TILE_SIZE * TILE_SIZE * (meta.size.x * meta.size.y)
    IN  IF decoded.panicked THEN Panicked
        ELSE IF n = 0 THEN Panicked      \* chunks(0) panics
        ELSE LET chunks == Chunks(decoded.value.colors, n)
             IN  Ok([layers |-> Collect([c \in 1..Len(chunks) |-> [colors |-> chunks[c]]]),
                     computed_tile_layers |-> compute_tile_layers(meta.layer_repeats),
                     size |-> meta.size])

\* the (vx, vy) pairs in the order the flat_map yields them
Coords ==
    Flatten(Collect([vy1 \in 1..HALF_TILE_SIZE |->
                Collect([vx1 \in 1..HALF_TILE_SIZE |-> <<vx1 - 1, vy1 - 1>>])]))

\* the source row taken to be as wide as one variant
WPosNarrow(r, vx, vy) == r * HALF_TILE_SIZE + vx + vy * HALF_TILE_SIZE

\* wpos of the innermost closure, start = r * HALF_TILE_SIZE
WPos(r, vx, vy) == r * HALF_TILE_SIZE + vx + vy * HALF_TILE_SIZE * block_rows

\* the TileLayer built for variant r of one chunk (row); "panic" marks
\* row[wpos] out of bounds
Variant(row, r) ==
    [colors |-> Collect([k \in 1..Len(Coords) |->
        LET wpos == WPos(r, Coords[k][1], Coords[k][2])
        IN  IF wpos < Len(row) THEN At(row, wpos) ELSE "panic"])]

MaterialLoader_load(data, meta) ==
    LET computed_tile_layers == compute_tile_layers(meta.layer_repeats)
        decoded == TileLayer_from(data)
    IN  IF decoded.panicked THEN Panicked
        ELSE
        LET rows == Chunks(decoded.value.colors,
                           HALF_TILE_SIZE * HALF_TILE_SIZE * block_rows)
            sub_tiles == Collect([q \in 1..Len(rows) |->
                [quadrant |-> q - 1,
                 data |-> Collect([r \in 1..block_rows |-> Variant(rows[q], r - 1)])]])
        IN  IF \E q \in 1..Len(sub_tiles) : \E r \in 1..block_rows :
                   \E k \in 1..Len(Coords) :
                       sub_tiles[q].data[r].colors[k] = "panic"
            THEN Panicked
            ELSE Ok([sub_tiles |-> sub_tiles,
                     computed_tile_layers |-> computed_tile_layers])

TextureLoader_load(data, meta) ==
    LET decoded == TileLayer_from(data)
    IN  IF decoded.panicked THEN Panicked
        ELSE Ok([texture |-> decoded.value,
                 size |-> meta.size,
                 layers |-> meta.layers,
                 filter |-> <<"None", "Neutral">>])

\* ------------------------------------------------------------ inputs

Bytes == {0, 1, 255}

Buffers == UNION {[1..n -> Bytes] : n \in 0..MaxBytes}

RepeatLists == UNION {[1..n -> 0..MaxRun] : n \in 0..MaxRuns}

\* the image files on disk: pixels is width * height; a file holds the
\* four table colours, except that "bad_pixel" has one pixel of another
\* colour and "truncated" decodes to a buffer that is not RGBA, its length
\* no multiple of 4
FilePixels ==
    {TILE_SIZE * TILE_SIZE * l : l \in 1..MaxLayers}
        \cup {HALF_TILE_SIZE * HALF_TILE_SIZE * block_rows * q : q \in 1..MaxQuadrants}

Files == [pixels : FilePixels, defect : {"none", "bad_pixel", "truncated"}]

\* the colour of pixel i of a file
PixelAt(i) ==
    LET h == (i + (i \div 10) * 3 + (i \div 50) + (i \div 7) + (i \div 400) * 2) % 4
    IN  CASE h = 0 -> <<0, 0, 0, 0>>
          [] h = 1 -> <<0, 0, 255, 255>>
          [] h = 2 -> <<0, 255, 0, 255>>
          [] h = 3 -> <<255, 0, 0, 255>>

\* tile_image.data, the buffer Image::from_buffer yields for file f
FileData(f) ==
    LET len == IF f.defect = "truncated" THEN PIXEL_SIZE * f.pixels - 1
               ELSE PIXEL_SIZE * f.pixels
    IN  Collect([j \in 1..len |->
            LET i == (j - 1) \div PIXEL_SIZE
            IN  IF f.defect = "bad_pixel" /\ i = f.pixels \div 2 THEN 255
                ELSE PixelAt(i)[((j - 1) % PIXEL_SIZE) + 1]])

Sizes == [x : 0..MaxSize, y : 0..MaxSize]

TileMetas == [size : Sizes, layer_repeats : {<<>>, <<1, 1>>, <<2, 1, 3>>}]

MaterialMetas == [layer_repeats : {<<>>, <<2>>}]

TextureMetas == [size : Sizes, layers : {<<0>>}]

\* the logical slots asked of a table: every slot in range, and two past it
Slots(computed) == 0..(Len(computed) + 1)

\* positions inside the TILE_SIZE x TILE_SIZE grid, and two outside it
Positions == 0..(TILE_SIZE * TILE_SIZE - 1) \cup {TILE_SIZE * TILE_SIZE, 8000}

\* the corners of the four quadrants
Corners ==
    {x + y * TILE_SIZE : x \in {0, 9, 10, 19}, y \in {0, 9, 10, 19}}

\* the positions asked of a Tile: the corners, and two outside the grid
TilePositions == Corners \cup {TILE_SIZE * TILE_SIZE, 8000}

Neighbors == [1..9 -> BOOLEAN]

AllTrue(n) == [i \in 1..n |-> TRUE]

\* the calls made on a Block, <<sub_layer, rpos, neighbors>>: slot 0 with
\* every neighbor state at one position of each quadrant; every slot at
\* every position; every slot with neighbor lists that are too short
BlockCalls(computed) ==
    ({0} \X {0, 19, 210, 389} \X Neighbors)
        \cup (Slots(computed) \X Positions \X {[i \in 1..9 |-> i % 3 # 0]})
        \cup (Slots(computed) \X {0, TILE_SIZE * TILE_SIZE - 1, 8000}
                \X {<<>>, AllTrue(8)})

\* u32 coordinates: small ones, and the last ones below 2^32
Coordinates ==
    {U32(n) : n \in {0, 1, 19, 20, 21, 39, 40, 45, 79, 80}}
        \cup {[hi |-> Half - 1, lo |-> Half - d] : d \in {1, 20, 40}}

\* ------------------------------------------------------------ state machine

NoCall == [fn |-> "none"]

NoAsset == [kind |-> "none"]

Init ==
    /\ file = "none"
    /\ settings = "none"
    /\ asset = NoAsset
    /\ call = NoCall

\* TileLayer::from(&value) on a raw buffer
From ==
    /\ call = NoCall
    /\ \E value \in Buffers :
        call' = [fn |-> "from", value |-> value, out |-> TileLayer_from(value)]
    /\ UNCHANGED <<file, settings, asset>>

\* compute_tile_layers(&layer_repeats)
ComputeTileLayers ==
    /\ call = NoCall
    /\ \E layer_repeats \in RepeatLists :
        call' = [fn |-> "compute_tile_layers", layer_repeats |-> layer_repeats,
                 out |-> compute_tile_layers(layer_repeats)]
    /\ UNCHANGED <<file, settings, asset>>

\* the caller takes the result; the next call may start
Return ==
    /\ call # NoCall
    /\ call' = NoCall
    /\ UNCHANGED <<file, settings, asset>>

\* what the asset server holds after load returned result
Loaded(kind, result) ==
    IF result.panicked THEN [kind |-> "failed"]
    ELSE [kind |-> kind, value |-> result.value]

\* TileLoader::load of a file f with settings meta
LoadTile ==
    /\ asset = NoAsset
    /\ \E f \in Files, meta \in TileMetas :
        /\ file' = f
        /\ settings' = meta
        /\ asset' = Loaded("tile", TileLoader_load(FileData(f), meta))
    /\ UNCHANGED call

\* MaterialLoader::load; the asset is Material.block
LoadMaterial ==
    /\ asset = NoAsset
    /\ \E f \in Files, meta \in MaterialMetas :
        /\ file' = f
        /\ settings' = meta
        /\ asset' = Loaded("material", MaterialLoader_load(FileData(f), meta))
    /\ UNCHANGED call

\* TextureLoader::load
LoadTexture ==
    /\ asset = NoAsset
    /\ \E f \in Files, meta \in TextureMetas :
        /\ file' = f
        /\ settings' = meta
        /\ asset' = Loaded("texture", TextureLoader_load(FileData(f), meta))
    /\ UNCHANGED call

\* Tile::get_pixel(sub_layer, rpos)
TileGetPixel ==
    /\ asset.kind = "tile"
    /\ call = NoCall
    /\ \E sub_layer \in Slots(asset.value.computed_tile_layers), rpos \in TilePositions :
        call' = [fn |-> "Tile::get_pixel", sub_layer |-> sub_layer, rpos |-> rpos,
                out |-> Tile_get_pixel(asset.value, sub_layer, rpos)]
    /\ UNCHANGED <<file, settings, asset>>

\* BlockMaterial::get_pixel(sub_layer, rpos, neighbors)
BlockGetPixel ==
    /\ asset.kind = "material"
    /\ call = NoCall
    /\ \E args \in BlockCalls(asset.value.computed_tile_layers) :
        call' = [fn |-> "BlockMaterial::get_pixel", sub_layer |-> args[1],
                 rpos |-> args[2], neighbors |-> args[3],
                 out |-> BlockMaterial_get_pixel(asset.value, args[1],
                                                 args[2], args[3])]
    /\ UNCHANGED <<file, settings, asset>>

\* TileTexture::get_pixel(pos)
TextureGetPixel ==
    /\ asset.kind = "texture"
    /\ call = NoCall
    /\ \E x \in Coordinates, y \in Coordinates :
        call' = [fn |-> "TileTexture::get_pixel", pos |-> [x |-> x, y |-> y],
                 out |-> TileTexture_get_pixel(asset.value, [x |-> x, y |-> y])]
    /\ UNCHANGED <<file, settings, asset>>

NextFrom == From \/ Return

SpecFrom == Init /\ [][NextFrom]_vars

NextLayers == ComputeTileLayers \/ Return

SpecLayers == Init /\ [][NextLayers]_vars

Next ==
    \/ LoadTile
    \/ LoadMaterial
    \/ LoadTexture
    \/ TileGetPixel
    \/ BlockGetPixel
    \/ TextureGetPixel
    \/ Return

Spec == Init /\ [][Next]_vars

\* ------------------------------------------------------------ claims

\* the classification table of the pixel classifier
Table(quad) ==
    CASE quad = <<0, 0, 0, 0>> -> "None"
      [] quad = <<0, 0, 255, 255>> -> "Up"
      [] quad = <<0, 255, 0, 255>> -> "Neutral"
      [] quad = <<255, 0, 0, 255>> -> "Down"
      [] OTHER -> "unknown"

\* C1: TileLayer::from on a buffer of 4n bytes whose quadruples are all in
\* the table yields exactly n pixels, pixel i the table image of bytes
\* 4i..4i+3; on a buffer holding any other quadruple, or of a length that
\* is no multiple of 4, it fails and yields no pixel grid.
C1_Classifier ==
    call.fn = "from" =>
        LET value == call.value
            n == Len(value) \div 4
            quad(i) == SubSeq(value, 4 * i + 1, 4 * i + 4)
            valid == /\ Len(value) % 4 = 0
                     /\ \A i \in 0..(n - 1) : Table(quad(i)) # "unknown"
        IN  IF valid
            THEN /\ ~call.out.panicked
                 /\ Len(call.out.value.colors) = n
                 /\ \A i \in 0..(n - 1) :
                        call.out.value.colors[i + 1] = Table(quad(i))
            ELSE call.out = Panicked

C1_Witness ==
    /\ call.fn = "from"
    /\ call.value = <<0, 0, 255, 255, 255, 0, 0, 255>>
    /\ call.out = Ok([colors |-> <<"Up", "Down">>])

\* c0 + ... + c(i-1)
PrefixSum(c, i) == SumSeq(SubSeq(c, 1, i))

\* C2: for run lengths c the lookup array L of compute_tile_layers has
\* length sum(c); L[j] = i exactly when c0+...+c(i-1) <= j < c0+...+ci; L is
\* non-decreasing and layer i occurs exactly ci times; [3,2] gives
\* [0,0,0,1,1], [] gives the empty array; every slot >= sum(c) is out of
\* range and every slot below it is in range.
C2_LayerRepeatTable ==
    call.fn = "compute_tile_layers" =>
        LET c == call.layer_repeats
            L == call.out
            sum == SumSeq(c)
        IN  /\ Len(L) = sum
            /\ \A j \in 0..(sum - 1) : \A i \in 0..(Len(c) - 1) :
                   (L[j + 1] = i) <=>
                       (PrefixSum(c, i) <= j /\ j < PrefixSum(c, i + 1))
            /\ \A j \in 1..(sum - 1) : L[j] <= L[j + 1]
            /\ \A i \in 0..(Len(c) - 1) :
                   Cardinality({j \in 1..sum : L[j] = i}) = c[i + 1]
            /\ (c = <<3, 2>> => L = <<0, 0, 0, 1, 1>>)
            /\ (c = <<>> => L = <<>>)
            /\ \A slot \in 0..(sum + 2) : VecGet(L, slot).some <=> slot < sum

C2_Witness ==
    /\ call.fn = "compute_tile_layers"
    /\ call.layer_repeats = <<3, 0, 2>>
    /\ call.out = <<0, 0, 0, 2, 2>>

\* the variant table of the adjacency lookup
VariantOf(horizontal, vertical, diagonal) ==
    CASE horizontal /\ vertical /\ diagonal -> 4
      [] horizontal /\ vertical /\ ~diagonal -> 3
      [] horizontal /\ ~vertical -> 2
      [] ~horizontal /\ vertical -> 1
      [] OTHER -> 0

\* the variant the table gives quadrant q for window w (w[0..2] is w[1..3] here)
VariantFor(q, w) ==
    VariantOf(w[2 * (q % 2) + 1], w[2 * (1 - (q % 2)) + 1], w[2])

\* C3: for every quadrant q in 0..3 of a loaded Block and every window w of
\* 3 booleans, SubTile::get selects the variant the table gives for
\* horizontal = w[2*(q%2)], vertical = w[2*(1-(q%2))], diagonal = w[1]: one
\* index in 0..4, which depends only on q's parity and w.
C3_VariantSelection ==
    asset.kind = "material" =>
        \A q1 \in 1..Len(asset.value.sub_tiles) :
            LET st == asset.value.sub_tiles[q1]
            IN  st.quadrant \in 0..3 =>
                    \A w \in [1..3 -> BOOLEAN] :
                        /\ SubTile_idx(st, w) = VariantFor(st.quadrant, w)
                        /\ SubTile_idx(st, w) \in 0..4
                        /\ SubTile_idx(st, w) =
                               SubTile_idx([st EXCEPT !.quadrant = st.quadrant % 2], w)
                        /\ SubTile_get(st, w) =
                               Ok(st.data[VariantFor(st.quadrant, w) + 1])

\* a Block with its four quadrants answered a call in quadrant 1 whose
\* window has both cardinal neighbors and no diagonal one
C3_Witness ==
    /\ asset.kind = "material"
    /\ Len(asset.value.sub_tiles) = 4
    /\ call.fn = "BlockMaterial::get_pixel"
    /\ call.sub_layer = 0
    /\ call.rpos = 19
    /\ call.neighbors = <<FALSE, FALSE, TRUE, FALSE, TRUE, FALSE, FALSE, FALSE, FALSE>>
    /\ call.out = Ok(asset.value.sub_tiles[2].data[4].colors[10])

\* C4: get_pixel of a Block and of a FlatTile with a logical slot >= the
\* sum of the run lengths returns Neutral and never fails, whatever the
\* position (also outside the grid) and the neighbor list (also one that
\* has not 9 entries).
C4_LookupMiss ==
    (call.fn \in {"BlockMaterial::get_pixel", "Tile::get_pixel"}
        /\ call.sub_layer >= SumSeq(settings.layer_repeats))
            => call.out = Ok("Neutral")

C4_Witness ==
    /\ call.fn = "BlockMaterial::get_pixel"
    /\ call.sub_layer >= SumSeq(settings.layer_repeats)
    /\ call.rpos = 8000
    /\ call.neighbors = <<>>
    /\ call.out = Ok("Neutral")

\* the quadrant of (x, y) as the claim states it
QuadrantOf(x, y) ==
    CASE x < 10 /\ y < 10 -> 0
      [] x >= 10 /\ y < 10 -> 1
      [] x >= 10 /\ y >= 10 -> 2
      [] x < 10 /\ y >= 10 -> 3

\* the pixel C5 names for a call on block b: the pixel at (x mod 10) +
\* (y mod 10) * 10 of the variant that quadrant q selects for n[2q..2q+2]
BlockPixelIs(b, rpos, n, out) ==
    LET x == rpos % TILE_SIZE
        y == rpos \div TILE_SIZE
        q == QuadrantOf(x, y)
    IN  /\ ~out.panicked
        /\ q < Len(b.sub_tiles)
        /\ out.value =
               b.sub_tiles[q + 1]
                   .data[VariantFor(q, SubSeq(n, 2 * q + 1, 2 * q + 3)) + 1]
                   .colors[(x % 10) + (y % 10) * 10 + 1]

\* C5: BlockMaterial::get_pixel with an in-range slot, a position in
\* 0..T*T-1 and 9 neighbors returns the pixel at the quadrant-local index of
\* the variant selected for the quadrant's window, the same for every
\* in-range slot, and no lookup on the way fails.
C5_BlockPixel ==
    (/\ call.fn = "BlockMaterial::get_pixel"
     /\ call.sub_layer < SumSeq(settings.layer_repeats)
     /\ call.rpos \in 0..(TILE_SIZE * TILE_SIZE - 1)
     /\ Len(call.neighbors) = 9)
        => BlockPixelIs(asset.value, call.rpos, call.neighbors, call.out)

\* C5 on the Blocks that own the four quadrants
BlockPixelOfFourQuadrants ==
    (/\ call.fn = "BlockMaterial::get_pixel"
     /\ Len(asset.value.sub_tiles) >= 4
     /\ call.sub_layer < SumSeq(settings.layer_repeats)
     /\ call.rpos \in 0..(TILE_SIZE * TILE_SIZE - 1)
     /\ Len(call.neighbors) = 9)
        => BlockPixelIs(asset.value, call.rpos, call.neighbors, call.out)

\* the layer the run lengths c give slot s: the i with
\* c0+...+c(i-1) <= s < c0+...+ci
LayerOf(c, s) ==
    CHOOSE i \in 0..(Len(c) - 1) : PrefixSum(c, i) <= s /\ s < PrefixSum(c, i + 1)

\* C6: for every FlatTile the loader built from a decoded image and run
\* lengths c, every slot s < sum(c) and every position p in 0..T*T-1,
\* get_pixel(s, p) succeeds and returns pixel p of physical layer L[s].
C6_FlatTilePixel ==
    (/\ call.fn = "Tile::get_pixel"
     /\ call.sub_layer < SumSeq(settings.layer_repeats)
     /\ call.rpos \in 0..(TILE_SIZE * TILE_SIZE - 1))
        => LET l == LayerOf(settings.layer_repeats, call.sub_layer)
           IN  /\ ~call.out.panicked
               /\ l < Len(asset.value.layers)
               /\ call.rpos < Len(asset.value.layers[l + 1].colors)
               /\ call.out.value = asset.value.layers[l + 1].colors[call.rpos + 1]

\* C6 on the FlatTiles whose image holds a full layer for every run length
FlatTilePixelOfFullLayers ==
    (/\ call.fn = "Tile::get_pixel"
     /\ Len(asset.value.layers) >= Len(settings.layer_repeats)
     /\ \A l \in 1..Len(asset.value.layers) :
            Len(asset.value.layers[l].colors) >= TILE_SIZE * TILE_SIZE
     /\ call.sub_layer < SumSeq(settings.layer_repeats)
     /\ call.rpos \in 0..(TILE_SIZE * TILE_SIZE - 1))
        => LET l == LayerOf(settings.layer_repeats, call.sub_layer)
           IN  call.out = Ok(asset.value.layers[l + 1].colors[call.rpos + 1])

\* a + d for a u32 a and an integer d, |d| < 2^30: the sum's halves and
\* the carry out of the upper half (0 when the sum is a u32)
U32Add(a, d) ==
    LET t == a.lo + d
        lo == t % Half
        h == a.hi + ((t - lo) \div Half)
        hi == h % Half
    IN  [hi |-> hi, lo |-> lo, carry |-> (h - hi) \div Half]

\* pos + k * (size.x * T, size.y * T)
Shifted(pos, size, k) ==
    [x |-> U32Add(pos.x, k * size.x * TILE_SIZE),
     y |-> U32Add(pos.y, k * size.y * TILE_SIZE)]

\* the shifted position in u32 arithmetic, the carry dropped
Wrapped(p) == [x |-> [hi |-> p.x.hi, lo |-> p.x.lo], y |-> [hi |-> p.y.hi, lo |-> p.y.lo]]

\* C7 as stated: get_pixel(p) == get_pixel(p + k * (sx*T, sy*T)) for every
\* position p and every integer k, negative ones included.
C7_Periodic ==
    call.fn = "TileTexture::get_pixel" =>
        \A k \in (-MaxK)..MaxK :
            TileTexture_get_pixel(asset.value,
                Wrapped(Shifted(call.pos, asset.value.size, k))) = call.out

\* C7 amended: get_pixel(p) and get_pixel(p + k * (sx*T, sy*T)) have the
\* same outcome for every u32 position p and every integer k, negative ones
\* included, for which both coordinates of the shifted position are again in
\* 0..2^32-1.
C7_PeriodicInRange ==
    call.fn = "TileTexture::get_pixel" =>
        \A k \in (-MaxK)..MaxK :
            LET p == Shifted(call.pos, asset.value.size, k)
            IN  (p.x.carry = 0 /\ p.y.carry = 0) =>
                    TileTexture_get_pixel(asset.value, Wrapped(p)) = call.out

\* a texture of size (2, 1) returned the pixel at (45, 45), which has a
\* position one period below it
C7_Witness ==
    /\ call.fn = "TileTexture::get_pixel"
    /\ asset.value.size = [x |-> 2, y |-> 1]
    /\ call.pos = [x |-> U32(45), y |-> U32(45)]
    /\ Wrapped(Shifted(call.pos, asset.value.size, -1)) = [x |-> U32(5), y |-> U32(25)]
    /\ ~call.out.panicked

\* C8: get_pixel of every WrappingTexture the texture loader produced, for
\* any metadata size and any decoded image, succeeds at every position.
C8_TextureInBounds ==
    call.fn = "TileTexture::get_pixel" => ~call.out.panicked

\* C8 on the textures whose grid holds size.x*T x size.y*T pixels, size
\* positive
TextureInBoundsOfFullGrid ==
    (/\ call.fn = "TileTexture::get_pixel"
     /\ asset.value.size.x > 0
     /\ asset.value.size.y > 0
     /\ Len(asset.value.texture.colors) >=
            asset.value.size.x * asset.value.size.y * TILE_SIZE * TILE_SIZE)
        => ~call.out.panicked

\* C9: every Block the material loader produced owns exactly 4
\* AdjacencyVariantSets, the set at index q carrying quadrant q, each of 5
\* PixelGrids of (T/2)*(T/2) = 100 pixels.
C9_BlockShape ==
    asset.kind = "material" =>
        /\ Len(asset.value.sub_tiles) = 4
        /\ \A q \in 1..Len(asset.value.sub_tiles) :
               /\ asset.value.sub_tiles[q].quadrant = q - 1
               /\ Len(asset.value.sub_tiles[q].data) = 5
               /\ \A r \in 1..5 :
                      Len(asset.value.sub_tiles[q].data[r].colors) = 100

\* C9 without the count of 4: one set per 500 decoded pixels
BlockShapePerChunk ==
    asset.kind = "material" =>
        /\ Len(asset.value.sub_tiles) * 500 = file.pixels
        /\ \A q \in 1..Len(asset.value.sub_tiles) :
               /\ asset.value.sub_tiles[q].quadrant = q - 1
               /\ Len(asset.value.sub_tiles[q].data) = 5
               /\ \A r \in 1..5 :
                      Len(asset.value.sub_tiles[q].data[r].colors) = 100

\* C10: in a loaded Block, variant r of quadrant q holds at grid index
\* vx + vy*10 the pixel r*10 + vx + vy*50 of the q-th chunk of 500 decoded
\* pixels, and (r, vx, vy) -> r*10 + vx + vy*50 is a bijection onto 0..499.
\* (The asset does not change after the load, so the state right after it
\* is the one examined.)
C10_Slicing ==
    (asset.kind = "material" /\ call = NoCall) =>
        LET decoded == TileLayer_from(FileData(file)).value.colors
            Cells == (0..4) \X (0..9) \X (0..9)
        IN  /\ \A c \in Cells : WPos(c[1], c[2], c[3]) = c[1] * 10 + c[2] + c[3] * 50
            /\ {WPos(c[1], c[2], c[3]) : c \in Cells} = 0..499
            /\ Cardinality(Cells) = 500
            /\ \A q \in 1..Len(asset.value.sub_tiles) :
                   LET chunk == SubSeq(decoded, 500 * (q - 1) + 1, 500 * q)
                   IN  /\ Len(chunk) = 500
                       /\ \A c \in Cells :
                              asset.value.sub_tiles[q].data[c[1] + 1]
                                  .colors[c[2] + c[3] * 10 + 1]
                                  = chunk[c[1] * 10 + c[2] + c[3] * 50 + 1]

\* a Block of four quadrants was sliced from a 50 x 40 image
C10_Witness ==
    /\ asset.kind = "material"
    /\ call = NoCall
    /\ file.pixels = 2000
    /\ Len(asset.value.sub_tiles) = 4
    /\ asset.value.sub_tiles[3].data[2].colors[35] =
           TileLayer_from(FileData(file)).value.colors[1000 + 1 * 10 + 4 + 3 * 50 + 1]

====
